---- MODULE Spec2Model ----
(***************************************************************************)
(* A model of the AI-BOT repository: the semantic chunker (CHUNK.py), the  *)
(* RAG retrieval step (retrieval.py) and the Discord command (bot.py).     *)
(*                                                                         *)
(* A Python str is a sequence of one-character strings.  None is the empty *)
(* sequence where the code only tests truthiness (wife_name).              *)
(***************************************************************************)
EXTENDS Integers, Sequences, FiniteSets, TLC

(***************************************************************************)
(* Bounds of the model.                                                    *)
(***************************************************************************)
\* SemanticChunker(max_chunk_size, min_chunk_size): the constructor's
\* parameters, scaled down from 800/400 so that short texts reach both the
\* one-chunk and the sentence-packing branch.
max_chunk_size == 12
min_chunk_size == 6
\* A generated chapter text is a concatenation of at most MaxUnits units.
MaxUnits == 3

(***************************************************************************)
(* Characters and str methods.                                             *)
(***************************************************************************)
LowerCase == <<"a","b","c","d","e","f","g","h","i","j","k","l","m","n","o","p","q","r","s","t","u","v","w","x","y","z">>
UpperCase == <<"A","B","C","D","E","F","G","H","I","J","K","L","M","N","O","P","Q","R","S","T","U","V","W","X","Y","Z">>

Range(s) == {s[i] : i \in DOMAIN s}

LowerSet == Range(LowerCase)
UpperSet == Range(UpperCase)

\* str.isspace for one character
IsSpace(c) == c \in {" ", "\n", "\t"}

\* str.isalpha for one character
IsAlpha(c) == c \in LowerSet \/ c \in UpperSet

LowerChar(c) ==
  IF c \in UpperSet THEN LowerCase[CHOOSE i \in DOMAIN UpperCase : UpperCase[i] = c] ELSE c

UpperChar(c) ==
  IF c \in LowerSet THEN UpperCase[CHOOSE i \in DOMAIN LowerCase : LowerCase[i] = c] ELSE c

\* str.lower()
Lower(s) == [i \in DOMAIN s |-> LowerChar(s[i])]

\* str.title(): the first letter of every run of letters in upper case, the
\* other letters in lower case
Title(s) ==
  [i \in DOMAIN s |->
     IF i = 1 \/ ~IsAlpha(s[i-1]) THEN UpperChar(s[i]) ELSE LowerChar(s[i])]

\* s[i:] (1-based i)
From(s, i) == SubSeq(s, i, Len(s))

\* str.startswith, from position i of s
StartsAt(s, i, p) ==
  /\ i + Len(p) - 1 <= Len(s)
  /\ \A k \in DOMAIN p : s[i + k - 1] = p[k]

StartsWith(s, p) == StartsAt(s, 1, p)

\* `sub in s`
Contains(s, sub) == \E i \in 1..(Len(s) + 1) : StartsAt(s, i, sub)

\* str.strip()
Strip(s) ==
  LET keep == {i \in DOMAIN s : ~IsSpace(s[i])}
  IN  IF keep = {} THEN <<>>
      ELSE LET lo == CHOOSE i \in keep : \A j \in keep : i <= j
               hi == CHOOSE i \in keep : \A j \in keep : j <= i
           IN  SubSeq(s, lo, hi)

\* sep.join(parts)
RECURSIVE Join(_, _)
Join(parts, sep) ==
  IF parts = <<>> THEN <<>>
  ELSE IF Len(parts) = 1 THEN parts[1]
  ELSE parts[1] \o sep \o Join(Tail(parts), sep)

\* str.split(sep) for a one-character separator
RECURSIVE SplitOn(_, _)
SplitOn(s, sep) ==
  LET hits == {i \in DOMAIN s : s[i] = sep}
  IN  IF hits = {} THEN <<s>>
      ELSE LET i == CHOOSE h \in hits : \A j \in hits : h <= j
           IN  <<SubSeq(s, 1, i - 1)>> \o SplitOn(From(s, i + 1), sep)

\* the end (exclusive) of the longest run of characters of class cls
\* starting at position i of s
RECURSIVE RunEnd(_, _, _)
RunEnd(s, i, cls) ==
  IF i <= Len(s) /\ s[i] \in cls THEN RunEnd(s, i + 1, cls) ELSE i

SpaceChars == {" ", "\n", "\t"}
SentenceEnd == {".", "!", "?"}

\* re.split(r'(?<=[.!?])\s+', s): s is cut at every run of whitespace that
\* directly follows a '.', '!' or '?'; the run itself is dropped
RECURSIVE ReSplitSentences(_)
ReSplitSentences(s) ==
  LET cuts == {i \in 2..Len(s) : s[i] \in SpaceChars /\ s[i-1] \in SentenceEnd}
  IN  IF cuts = {} THEN <<s>>
      ELSE LET i == CHOOSE c \in cuts : \A j \in cuts : c <= j
           IN  <<SubSeq(s, 1, i - 1)>>
                 \o ReSplitSentences(From(s, RunEnd(s, i, SpaceChars)))

(***************************************************************************)
(* String literals of CHUNK.py.                                            *)
(***************************************************************************)
section_markers ==
  << <<"n","a","m","e"," ","a","n","d"," ","l","i","n","e","a","g","e">>,
     <<"h","e","r"," ","m","a","r","r","i","a","g","e">>,
     <<"h","e","r"," ","l","i","f","e"," ","w","i","t","h">>,
     <<"h","e","r"," ","e","m","i","g","r","a","t","i","o","n">>,
     <<"h","e","r"," ","d","e","a","t","h">>,
     <<"h","e","r"," ","v","i","r","t","u","e","s">>,
     <<"e","m","b","r","a","c","i","n","g"," ","i","s","l","a","m">>,
     <<"h","e","r"," ","c","h","i","l","d","h","o","o","d">>,
     <<"h","e","r"," ","u","p","b","r","i","n","g","i","n","g">>,
     <<"h","e","r"," ","k","n","o","w","l","e","d","g","e">>,
     <<"w","i","s","d","o","m"," ","b","e","h","i","n","d">>,
     <<"h","e","r"," ","c","o","n","t","r","i","b","u","t","i","o","n","s">>,
     <<"h","e","r"," ","g","e","n","e","r","o","s","i","t","y">>,
     <<"b","a","t","t","l","e"," ","o","f">>,
     <<"h","e","r"," ","w","o","r","s","h","i","p">>,
     <<"h","e","r"," ","p","i","e","t","y">>,
     <<"c","r","i","t","e","r","i","a"," ","f","o","r">>,
     <<"t","h","e"," ","w","i","s","d","o","m">>,
     <<"h","e","r"," ","f","a","t","h","e","r">>,
     <<"h","e","r"," ","m","o","t","h","e","r">> >>

StrIntroduction == <<"I","n","t","r","o","d","u","c","t","i","o","n">>
StrUnknown == <<"U","n","k","n","o","w","n">>
StrUmm == <<"U","m","m">>
StrConclusion == <<"C","o","n","c","l","u","s","i","o","n">>
StrUmmSalamahFull == <<"U","m","m"," ","S","a","l","a","m","a","h"," ","H","i","n","d"," ","B","i","n","t"," ","U","m","a","y","y","a","h">>
StrUmmHabibahFull == <<"U","m","m"," ","H","a","b","i","b","a","h"," ","R","a","m","l","a","h"," ","B","i","n","t"," ","A","b","u"," ","S","u","f","y","a","n">>
KeyUmmSalamah == <<"u","m","m"," ","s","a","l","a","m","a","h">>
KeyUmmHabibah == <<"u","m","m"," ","h","a","b","i","b","a","h">>
KeyConclusion == <<"c","o","n","c","l","u","s","i","o","n">>
KeyUmmAlMuminin == <<"u","m","m"," ","a","l","-","m","u","m","i","n","i","n">>
KeyBint == <<"b","i","n","t">>
alias_patterns ==
  << <<"a","l","s","o"," ","k","n","o","w","n"," ","a","s">>,
     <<"n","i","c","k","n","a","m","e","d">>,
     <<"c","a","l","l","e","d">>,
     <<"d","u","b","b","e","d">> >>

(***************************************************************************)
(* SemanticChunker.extract_wife_info                                       *)
(***************************************************************************)
Max(S) == CHOOSE x \in S : \A y \in S : y <= x
Min(S) == CHOOSE x \in S : \A y \in S : x <= y

\* The name pattern tried at position i of the lowered text t:
\*   umm al-muminin\s+([a-z]+(?:\s+bint\s+[a-z]+(?:\s+[a-z]+)?)?)
\* <<start, end>> of group 1 (end exclusive), or <<>> when it does not match
\* there.  Every quantifier is greedy and none can give a character back to
\* what follows it, so the match is the longest one.
NameMatchAt(t, i) ==
  IF ~StartsAt(t, i, KeyUmmAlMuminin) THEN <<>>
  ELSE
    LET j  == i + Len(KeyUmmAlMuminin)
        w  == RunEnd(t, j, SpaceChars)
        l1 == RunEnd(t, w, LowerSet)
        a1 == RunEnd(t, l1, SpaceChars)
        a2 == RunEnd(t, a1 + Len(KeyBint), SpaceChars)
        a3 == RunEnd(t, a2, LowerSet)
        b1 == RunEnd(t, a3, SpaceChars)
        b2 == RunEnd(t, b1, LowerSet)
        hasBint == /\ a1 > l1
                   /\ StartsAt(t, a1, KeyBint)
                   /\ a2 > a1 + Len(KeyBint)
                   /\ a3 > a2
        hasThird == hasBint /\ b1 > a3 /\ b2 > b1
    IN  IF w = j \/ l1 = w THEN <<>>
        ELSE IF hasThird THEN <<w, b2>>
        ELSE IF hasBint THEN <<w, a3>>
        ELSE <<w, l1>>

\* re.search(name pattern, text.lower()), then group(1).title(); <<>> is None
ExtractName(text) ==
  LET t    == Lower(text)
      hits == {i \in DOMAIN t : NameMatchAt(t, i) # <<>>}
  IN  IF hits = {} THEN <<>>
      ELSE LET m == NameMatchAt(t, Min(hits))
           IN  Title(SubSeq(t, m[1], m[2] - 1))

AliasSep == SpaceChars \cup {":"}
AliasBody == LowerSet \cup SpaceChars

\* Where the alias pattern's tail (?:[,\.]|$) matches at position g of t:
\* a comma or a full stop (consumed), the end of the string, or the place
\* before a newline that ends the string.  The position after it, 0 if none.
AliasTailEnd(t, g) ==
  IF g <= Len(t) /\ t[g] \in {",", "."} THEN g + 1
  ELSE IF g = Len(t) + 1 THEN g
  ELSE IF g = Len(t) /\ t[g] = "\n" THEN g
  ELSE 0

\* An alias pattern tried at position i of the lowered text t:
\*   phrase[:\s]+([a-z\s]{3,20})(?:[,\.]|$)
\* <<group start, group end (exclusive), match end>>, or <<>>.  The regex
\* engine tries the longest separator first, then the longest group.
AliasMatchAt(t, i, phrase) ==
  IF ~StartsAt(t, i, phrase) THEN <<>>
  ELSE
    LET j    == i + Len(phrase)
        wEnd == RunEnd(t, j, AliasSep)
        ok(w, g) == /\ g <= RunEnd(t, w, AliasBody)
                    /\ AliasTailEnd(t, g) # 0
        ws   == {w \in (j + 1)..wEnd : \E g \in (w + 3)..(w + 20) : ok(w, g)}
    IN  IF ws = {} THEN <<>>
        ELSE LET w == Max(ws)
                 g == Max({x \in (w + 3)..(w + 20) : ok(w, x)})
             IN  <<w, g, AliasTailEnd(t, g)>>

\* re.findall(pattern, t): the groups of the non-overlapping matches, left
\* to right, scanning from position i
RECURSIVE FindAllFrom(_, _, _)
FindAllFrom(t, i, phrase) ==
  IF i > Len(t) THEN <<>>
  ELSE LET m == AliasMatchAt(t, i, phrase)
       IN  IF m = <<>> THEN FindAllFrom(t, i + 1, phrase)
           ELSE <<SubSeq(t, m[1], m[2] - 1)>> \o FindAllFrom(t, m[3], phrase)

FindAll(text, phrase) == FindAllFrom(Lower(text), 1, phrase)

AlphaCount(s) == Cardinality({i \in DOMAIN s : IsAlpha(s[i])})

\* The filter of line 63:
\*   3 <= len(alias) <= 20 and sum(c.isalpha() for c in alias) > len(alias) * 0.7
\* For len <= 20 the float comparison a > len * 0.7 is 10 * a > 7 * len
\* (10 * 0.7 and 20 * 0.7 are exactly 7.0 and 14.0).
AliasOkAtLeast(alias) ==
  /\ 3 <= Len(alias) /\ Len(alias) <= 20
  /\ 10 * AlphaCount(alias) >= 7 * Len(alias)

AliasOk(alias) ==
  /\ 3 <= Len(alias) /\ Len(alias) <= 20
  /\ 10 * AlphaCount(alias) > 7 * Len(alias)

\* The aliases one pattern's matches add: match.strip(), filter, title()
AliasesOf(matches) ==
  {Title(Strip(matches[k])) : k \in {n \in DOMAIN matches : AliasOk(Strip(matches[n]))}}

\* extract_wife_info(text): wife_name (<<>> for None) and the alias set
\* (list(set(aliases)): an unordered collection without duplicates)
extract_wife_info(text) ==
  [wife_name |-> ExtractName(text),
   aliases   |-> UNION {AliasesOf(FindAll(text, alias_patterns[p])) :
                          p \in DOMAIN alias_patterns}]

(***************************************************************************)
(* State.                                                                  *)
(***************************************************************************)
VARIABLES
  \* process_chapters (CHUNK.py)
  input_file,       \* "missing", "invalid" or "ok": what open/json.load finds
  chapters,         \* the chapter texts json.load returns
  output_file,      \* <<>> while never written, else <<the saved chunk list>>
  pc,               \* where process_chapters stands
  chIdx,            \* the chapter being processed (enumerate index)
  all_chunks,
  fixed_count,
  postIdx,          \* the chunk the post-processing loop is at
  \* create_chunks / split_into_sections locals
  wife_info,
  paragraphs,
  pIdx,             \* the paragraph the splitting loop is at
  sections,
  current_section,
  secIdx,           \* the section the chunking loop is at
  sentences,
  sIdx,             \* the sentence the packing loop is at
  current_chunk,
  current_length,
  chunks,
  \* extract_wife_info, run on its own (one alias match per step)
  e_pc,
  e_text,
  e_name,           \* wife_name (<<>> for None)
  e_pat,            \* the alias pattern the outer loop is at
  e_matches,        \* re.findall's result for that pattern
  e_mIdx,           \* the match the inner loop is at
  e_aliases,        \* the list `aliases`
  e_result,
  \* retrieval.py
  DF,               \* the global: None or a DataFrame
  joblib_file,      \* what is at JOB_LIB_PATH: Missing or a DataFrame
  generate_url,     \* whether config.OLLAMA_GENERATE_URL is non-empty
  q_pc,             \* per executor thread: where perform_rag_retrieval stands
  q_sent,           \* the HTTP requests the call has posted, in order
  q_emb,            \* the embedding service's answer
  questions_embedding,
  stored_embeddings,
  top_indices,      \* row positions, 0-based as in numpy
  context_chunks,
  q_gen,            \* the generation service's answer
  q_result,         \* what the call handed its caller
  \* bot.py: azwaj_query, one invocation per executor thread
  b_pc,             \* where the coroutine stands: at the await, or sending
  final_response,
  b_chunks,         \* the list `chunks` of line 43
  b_i,              \* enumerate's index i (0-based)
  b_sent            \* the messages handed to ctx.send, in order

pvars == <<input_file, chapters, output_file, pc, chIdx, all_chunks, fixed_count, postIdx>>
svars == <<wife_info, paragraphs, pIdx, sections, current_section>>
kvars == <<secIdx, sentences, sIdx, current_chunk, current_length, chunks>>
cvars == <<pvars, svars, kvars>>
evars == <<e_pc, e_text, e_name, e_pat, e_matches, e_mIdx, e_aliases, e_result>>
rvars == <<DF, joblib_file, generate_url, q_pc, q_sent, q_emb, questions_embedding,
           stored_embeddings, top_indices, context_chunks, q_gen, q_result>>
bvars == <<b_pc, final_response, b_chunks, b_i, b_sent>>
vars == <<cvars, evars, rvars, bvars>>

NoInfo == [wife_name |-> <<>>, aliases |-> {}]
NoSection == [title |-> <<>>, content |-> <<>>]

(***************************************************************************)
(* SemanticChunker.split_into_sections                                     *)
(***************************************************************************)
\* paragraphs = [p.strip() for p in text.split('\n') if p.strip()]
Paragraphs(text) ==
  LET lines == SplitOn(text, "\n")
      keep  == SelectSeq(lines, LAMBDA l : Strip(l) # <<>>)
  IN  [i \in DOMAIN keep |-> Strip(keep[i])]

\* The inner loop `for marker in section_markers: if para_lower.startswith(
\* marker): ... break`: the index of the first marker, in list order, that
\* the lowered paragraph starts with; 0 when the loop ends without a break.
RECURSIVE MatchMarkerFrom(_, _)
MatchMarkerFrom(para_lower, m) ==
  IF m > Len(section_markers) THEN 0
  ELSE IF StartsWith(para_lower, section_markers[m]) THEN m
  ELSE MatchMarkerFrom(para_lower, m + 1)

MatchMarker(para) == MatchMarkerFrom(Lower(para), 1)

\* `if current_section['content']: sections.append(current_section)`
SaveSectionAlways(secs, cur) == Append(secs, cur)

SaveSection(secs, cur) ==
  IF cur.content # <<>> THEN Append(secs, cur) ELSE secs

\* The new current_section of lines 122-125
NewSection(m, para) == [title |-> Title(section_markers[m]), content |-> <<para>>]

(***************************************************************************)
(* SemanticChunker.create_chunks                                           *)
(***************************************************************************)
\* len(content), as stored in 'char_count' (lines 171, 195, 211)
CharCountPlusSpace(content) == Len(content) + 1

CharCount(content) == Len(content)

\* The chunk dict of lines 166-172, 190-196 and 206-212
MakeChunk(info, title, content) ==
  [wife_name  |-> IF info.wife_name # <<>> THEN info.wife_name ELSE StrUnknown,
   aliases    |-> info.aliases,
   section    |-> title,
   content    |-> content,
   char_count |-> CharCount(content)]

\* ' '.join(section['content']) and ' '.join(current_chunk)
JoinSpace(parts) == Join(parts, <<" ">>)

\* line 188
ShouldFlush(cur_len, sentence_length) ==
  cur_len + sentence_length > max_chunk_size /\ cur_len >= min_chunk_size

\* current_chunk after a flush (line 197)
AfterFlushEmpty(sentence) == <<>>

AfterFlush(sentence) == <<sentence>>

(***************************************************************************)
(* process_chapters, one step of its loops per action.                     *)
(***************************************************************************)
\* A load that, on a missing or malformed file, writes an empty chunk list
LoadChaptersWritesEmpty ==
  /\ pc = "load"
  /\ IF input_file = "ok"
     THEN pc' = "chapter" /\ UNCHANGED output_file
     ELSE pc' = "aborted" /\ output_file' = <<(<<>>)>>
  /\ UNCHANGED <<input_file, chapters, chIdx, all_chunks, fixed_count, postIdx>>
  /\ UNCHANGED <<svars, kvars>>
  /\ UNCHANGED <<evars, rvars, bvars>>

\* lines 233-244: open + json.load; a missing or malformed file returns
LoadChapters ==
  /\ pc = "load"
  /\ pc' = IF input_file = "ok" THEN "chapter" ELSE "aborted"
  /\ UNCHANGED <<input_file, chapters, output_file, chIdx, all_chunks, fixed_count, postIdx>>
  /\ UNCHANGED <<svars, kvars>>
  /\ UNCHANGED <<evars, rvars, bvars>>

\* line 260 into create_chunks, lines 152-158 and split_into_sections up to
\* its loop (lines 76-108)
ChapterStart ==
  /\ pc = "chapter"
  /\ chIdx <= Len(chapters)
  /\ wife_info' = extract_wife_info(chapters[chIdx])
  /\ paragraphs' = Paragraphs(chapters[chIdx])
  /\ pIdx' = 1
  /\ sections' = <<>>
  /\ current_section' = [title |-> StrIntroduction, content |-> <<>>]
  /\ chunks' = <<>>
  /\ pc' = "split"
  /\ UNCHANGED <<input_file, chapters, output_file, chIdx, all_chunks, fixed_count, postIdx>>
  /\ UNCHANGED <<secIdx, sentences, sIdx, current_chunk, current_length>>
  /\ UNCHANGED <<evars, rvars, bvars>>

\* one iteration of `for para in paragraphs` (lines 110-130)
SplitPara ==
  /\ pc = "split"
  /\ pIdx <= Len(paragraphs)
  /\ LET para == paragraphs[pIdx]
         m    == MatchMarker(para)
     IN  IF m # 0
         THEN /\ sections' = SaveSection(sections, current_section)
              /\ current_section' = NewSection(m, para)
         ELSE /\ sections' = sections
              /\ current_section' =
                   [current_section EXCEPT !.content = Append(@, para)]
  /\ pIdx' = pIdx + 1
  /\ UNCHANGED <<pvars, kvars, wife_info, paragraphs>>
  /\ UNCHANGED <<evars, rvars, bvars>>

\* lines 132-136: the last section, and back in create_chunks (line 161)
SplitEnd ==
  /\ pc = "split"
  /\ pIdx > Len(paragraphs)
  /\ sections' = SaveSection(sections, current_section)
  /\ current_section' = NoSection
  /\ secIdx' = 1
  /\ pc' = "section"
  /\ UNCHANGED <<input_file, chapters, output_file, chIdx, all_chunks, fixed_count, postIdx>>
  /\ UNCHANGED <<wife_info, paragraphs, pIdx>>
  /\ UNCHANGED <<sentences, sIdx, current_chunk, current_length, chunks>>
  /\ UNCHANGED <<evars, rvars, bvars>>

\* The section loop with `<` in place of `<=` at line 164
SectionStartStrict ==
  /\ pc = "section"
  /\ secIdx <= Len(sections)
  /\ LET section      == sections[secIdx]
         section_text == JoinSpace(section.content)
     IN  IF Len(section_text) < max_chunk_size
         THEN /\ chunks' = Append(chunks, MakeChunk(wife_info, section.title, section_text))
              /\ secIdx' = secIdx + 1
              /\ UNCHANGED <<pc, sentences, sIdx, current_chunk, current_length>>
         ELSE /\ sentences' = ReSplitSentences(section_text)
              /\ sIdx' = 1
              /\ current_chunk' = <<>>
              /\ current_length' = 0
              /\ pc' = "sentence"
              /\ UNCHANGED <<chunks, secIdx>>
  /\ UNCHANGED <<input_file, chapters, output_file, chIdx, all_chunks, fixed_count, postIdx>>
  /\ UNCHANGED svars
  /\ UNCHANGED <<evars, rvars, bvars>>

\* `for section in sections` (lines 161-178): a section that fits is one
\* chunk; a longer one is split into sentences and packed
SectionStart ==
  /\ pc = "section"
  /\ secIdx <= Len(sections)
  /\ LET section      == sections[secIdx]
         section_text == JoinSpace(section.content)
     IN  IF Len(section_text) <= max_chunk_size
         THEN /\ chunks' = Append(chunks, MakeChunk(wife_info, section.title, section_text))
              /\ secIdx' = secIdx + 1
              /\ UNCHANGED <<pc, sentences, sIdx, current_chunk, current_length>>
         ELSE /\ sentences' = ReSplitSentences(section_text)
              /\ sIdx' = 1
              /\ current_chunk' = <<>>
              /\ current_length' = 0
              /\ pc' = "sentence"
              /\ UNCHANGED <<chunks, secIdx>>
  /\ UNCHANGED <<input_file, chapters, output_file, chIdx, all_chunks, fixed_count, postIdx>>
  /\ UNCHANGED svars
  /\ UNCHANGED <<evars, rvars, bvars>>

\* one iteration of `for sentence in sentences` (lines 180-201)
SentenceStep ==
  /\ pc = "sentence"
  /\ sIdx <= Len(sentences)
  /\ LET sentence        == Strip(sentences[sIdx])
         sentence_length == Len(sentence)
     IN  IF sentence = <<>>
         THEN UNCHANGED <<chunks, current_chunk, current_length>>
         ELSE IF ShouldFlush(current_length, sentence_length)
         THEN /\ chunks' = Append(chunks,
                     MakeChunk(wife_info, sections[secIdx].title, JoinSpace(current_chunk)))
              /\ current_chunk' = AfterFlush(sentence)
              /\ current_length' = sentence_length
         ELSE /\ current_chunk' = Append(current_chunk, sentence)
              /\ current_length' = current_length + sentence_length + 1
              /\ UNCHANGED chunks
  /\ sIdx' = sIdx + 1
  /\ UNCHANGED <<pvars, svars, secIdx, sentences>>
  /\ UNCHANGED <<evars, rvars, bvars>>

\* lines 203-212: the remaining sentences of the section
SectionEnd ==
  /\ pc = "sentence"
  /\ sIdx > Len(sentences)
  /\ chunks' = IF current_chunk # <<>>
               THEN Append(chunks,
                      MakeChunk(wife_info, sections[secIdx].title, JoinSpace(current_chunk)))
               ELSE chunks
  /\ current_chunk' = <<>>
  /\ current_length' = 0
  /\ sentences' = <<>>
  /\ sIdx' = 1
  /\ secIdx' = secIdx + 1
  /\ pc' = "section"
  /\ UNCHANGED <<input_file, chapters, output_file, chIdx, all_chunks, fixed_count, postIdx>>
  /\ UNCHANGED svars
  /\ UNCHANGED <<evars, rvars, bvars>>

\* line 214: create_chunks returns
CreateChunksReturn ==
  /\ pc = "section"
  /\ secIdx > Len(sections)
  /\ pc' = "created"
  /\ UNCHANGED <<input_file, chapters, output_file, chIdx, all_chunks, fixed_count, postIdx>>
  /\ UNCHANGED <<svars, kvars>>
  /\ UNCHANGED <<evars, rvars, bvars>>

\* lines 261-267: all_chunks.extend(chapter_chunks), next chapter; after
\* the last one the post-processing loop starts (line 278)
ChapterEnd ==
  /\ pc = "created"
  /\ all_chunks' = all_chunks \o chunks
  /\ chIdx' = chIdx + 1
  /\ pc' = "chapter"
  /\ wife_info' = NoInfo
  /\ paragraphs' = <<>>
  /\ pIdx' = 1
  /\ sections' = <<>>
  /\ secIdx' = 1
  /\ chunks' = <<>>
  /\ UNCHANGED <<input_file, chapters, output_file, fixed_count, postIdx>>
  /\ UNCHANGED <<current_section, sentences, sIdx, current_chunk, current_length>>
  /\ UNCHANGED <<evars, rvars, bvars>>

ChaptersDone ==
  /\ pc = "chapter"
  /\ chIdx > Len(chapters)
  /\ pc' = "post"
  /\ postIdx' = 1
  /\ fixed_count' = 0
  /\ UNCHANGED <<input_file, chapters, output_file, chIdx, all_chunks>>
  /\ UNCHANGED <<svars, kvars>>
  /\ UNCHANGED <<evars, rvars, bvars>>

\* A correction that resolves an 'Unknown' subject in two steps: first to
\* the placeholder 'Umm', and only a placeholder to the full name
FixChunkInSteps(chunk) ==
  IF chunk.wife_name = StrUmm \/ chunk.wife_name = StrUnknown
  THEN LET content_lower == Lower(chunk.content)
           step(full) == IF chunk.wife_name = StrUnknown THEN StrUmm ELSE full
       IN  IF Contains(content_lower, KeyUmmSalamah)
           THEN [chunk EXCEPT !.wife_name = step(StrUmmSalamahFull)]
           ELSE IF Contains(content_lower, KeyUmmHabibah)
           THEN [chunk EXCEPT !.wife_name = step(StrUmmHabibahFull)]
           ELSE IF Contains(content_lower, KeyConclusion)
           THEN [chunk EXCEPT !.wife_name = StrConclusion, !.section = StrConclusion]
           ELSE chunk
  ELSE chunk

\* The body of `for chunk in all_chunks` (lines 281-294)
FixChunk(chunk) ==
  IF chunk.wife_name = StrUmm \/ chunk.wife_name = StrUnknown
  THEN LET content_lower == Lower(chunk.content)
       IN  IF Contains(content_lower, KeyUmmSalamah)
           THEN [chunk EXCEPT !.wife_name = StrUmmSalamahFull]
           ELSE IF Contains(content_lower, KeyUmmHabibah)
           THEN [chunk EXCEPT !.wife_name = StrUmmHabibahFull]
           ELSE IF Contains(content_lower, KeyConclusion)
           THEN [chunk EXCEPT !.wife_name = StrConclusion, !.section = StrConclusion]
           ELSE chunk
  ELSE chunk

PostStep ==
  /\ pc = "post"
  /\ postIdx <= Len(all_chunks)
  /\ all_chunks' = [all_chunks EXCEPT ![postIdx] = FixChunk(@)]
  /\ fixed_count' = IF FixChunk(all_chunks[postIdx]) # all_chunks[postIdx]
                    THEN fixed_count + 1 ELSE fixed_count
  /\ postIdx' = postIdx + 1
  /\ UNCHANGED <<input_file, chapters, output_file, pc, chIdx>>
  /\ UNCHANGED <<svars, kvars>>
  /\ UNCHANGED <<evars, rvars, bvars>>

\* lines 298-340: the statistics, then the save.  avg_size divides by
\* len(all_chunks): with no chunk at all ZeroDivisionError leaves
\* process_chapters before the file is opened for writing.
Save ==
  /\ pc = "post"
  /\ postIdx > Len(all_chunks)
  /\ IF all_chunks = <<>>
     THEN pc' = "raised" /\ UNCHANGED output_file
     ELSE pc' = "done" /\ output_file' = <<all_chunks>>
  /\ UNCHANGED <<input_file, chapters, chIdx, all_chunks, fixed_count, postIdx>>
  /\ UNCHANGED <<svars, kvars>>
  /\ UNCHANGED <<evars, rvars, bvars>>

NextChunk ==
  \/ LoadChapters
  \/ ChapterStart
  \/ SplitPara
  \/ SplitEnd
  \/ SectionStart
  \/ SentenceStep
  \/ SectionEnd
  \/ CreateChunksReturn
  \/ ChapterEnd
  \/ ChaptersDone
  \/ PostStep
  \/ Save

(***************************************************************************)
(* Inputs of the chunking build.                                           *)
(***************************************************************************)
\* The units a generated chapter is concatenated from: three sentences of
\* 3, 5 and 7 characters with their separating space, a line break, two
\* section markers (one followed by a space, one not), a sentence end with
\* two spaces, a bare letter.
Units ==
  { <<"a","b","."," ">>,
    <<"c","d","e","f","."," ">>,
    <<"g","h","i","j","k","l","?"," ">>,
    <<"\n">>,
    <<"H","e","r"," ","M","a","r","r","i","a","g","e"," ">>,
    <<"B","A","T","T","L","E"," ","O","F">>,
    <<"!"," "," ">>,
    <<"m">> }

RECURSIVE Flatten(_)
Flatten(us) == IF us = <<>> THEN <<>> ELSE us[1] \o Flatten(Tail(us))

GeneratedTexts ==
  {Flatten(us) : us \in UNION {[1..n -> Units] : n \in 0..MaxUnits}}

\* Hand-written chapters: subjects, aliases and the post-processing keys
NamedTexts ==
  { <<"I","n"," ","c","o","n","c","l","u","s","i","o","n"," ","a","b","."," ","c","d","e","f",".">>,
    <<"a","b","."," ","c","d","e","f",".","\n","H","e","r"," ","M","a","r","r","i","a","g","e"," ","c","d","e","f","."," ","g","h","i","j","k","l","?"," ","c","d","e","f","."," ","a","b",".","\n"," ","\n","m","m","\n","B","A","T","T","L","E"," ","O","F"," ","a","b","."," "," ","c","d">>,
    <<"c","d","e","f","."," ","g","h","i","j","k","l","?"," ","c","d","e","f","."," ","g","h","i","j","k","l","?","\n","h","e","r"," ","d","e","a","t","h"," ","a","b","!"," ","c","d","?"," ","e","f",".">>,
    <<"c","d",".","\n","H","e","r"," ","D","e","a","t","h"," ","o","f"," ","U","m","m"," ","S","a","l","a","m","a","h",".">>,
    <<"C","o","n","c","l","u","s","i","o","n"," ","o","f"," ","U","m","m"," ","S","a","l","a","m","a","h",".">>,
    <<"u","m","m"," ","a","l","-","m","u","m","i","n","i","n"," ","u","m","m"," ","h","a","b","i","b","a","h",","," ","c","a","l","l","e","d"," ","a","b"," ","c","d"," ","e","f"," ","g",".">>,
    <<"U","m","m"," ","a","l","-","M","u","m","i","n","i","n"," ","A","i","s","h","a","h"," ","b","i","n","t"," ","A","b","u"," ","B","a","k","r",".","\n","B","a","t","t","l","e"," ","o","f"," ","a","b",".">> }

ChapterLists ==
  {<<t>> : t \in GeneratedTexts \cup NamedTexts}
    \cup {<<t1, t2>> : t1 \in NamedTexts, t2 \in NamedTexts \cup {<<>>}}

ChunkStart ==
  /\ \/ /\ input_file = "ok"
        /\ chapters \in ChapterLists \cup {<<>>}
     \/ /\ input_file \in {"missing", "invalid"}
        /\ chapters = <<>>
  /\ output_file = <<>>
  /\ pc = "load"
  /\ chIdx = 1
  /\ all_chunks = <<>>
  /\ fixed_count = 0
  /\ postIdx = 1
  /\ wife_info = NoInfo
  /\ paragraphs = <<>>
  /\ pIdx = 1
  /\ sections = <<>>
  /\ current_section = NoSection
  /\ secIdx = 1
  /\ sentences = <<>>
  /\ sIdx = 1
  /\ current_chunk = <<>>
  /\ current_length = 0
  /\ chunks = <<>>

\* process_chapters not running
ChunkIdle ==
  /\ input_file = "missing" /\ chapters = <<>> /\ output_file = <<>>
  /\ pc = "idle" /\ chIdx = 1 /\ all_chunks = <<>> /\ fixed_count = 0 /\ postIdx = 1
  /\ wife_info = NoInfo /\ paragraphs = <<>> /\ pIdx = 1 /\ sections = <<>>
  /\ current_section = NoSection /\ secIdx = 1 /\ sentences = <<>> /\ sIdx = 1
  /\ current_chunk = <<>> /\ current_length = 0 /\ chunks = <<>>

(***************************************************************************)
(* Properties of the chunking build.                                       *)
(***************************************************************************)
\* The words of a text: its maximal runs of non-whitespace characters, in
\* order.  Two texts are equal modulo whitespace normalization when their
\* words are.
RECURSIVE Words(_)
Words(s) ==
  LET st == RunEnd(s, 1, SpaceChars)
  IN  IF st > Len(s) THEN <<>>
      ELSE LET en == Min({i \in st..(Len(s) + 1) : i = Len(s) + 1 \/ s[i] \in SpaceChars})
           IN  <<SubSeq(s, st, en - 1)>> \o Words(From(s, en))

Contents(cs) == [i \in DOMAIN cs |-> cs[i].content]

\* C1: create_chunks loses and reorders nothing: when it returns, the
\* contents of the chunks it emitted, concatenated in emission order, are
\* the chapter text modulo whitespace normalization; and so is the saved
\* store for the whole chapter list.
C1_NothingLostOrReordered ==
  /\ pc = "created" =>
       Words(JoinSpace(Contents(chunks))) = Words(chapters[chIdx])
  /\ pc = "done" =>
       Words(JoinSpace(Contents(output_file[1]))) = Words(JoinSpace(chapters))

\* C1's case: a chapter of several sections, one of them sentence-packed
\* into more than one chunk
C1_Witness ==
  /\ pc = "created"
  /\ Len(sections) >= 2
  /\ Len(chunks) > Len(sections)

\* C2: a chunk flushed inside the sentence loop (not the last fragment of
\* its section) is at least min_chunk_size characters long.
C2_FlushedAtLeastMin ==
  [][(pc = "sentence" /\ sIdx <= Len(sentences) /\ Len(chunks') = Len(chunks) + 1)
       => Len(chunks'[Len(chunks')].content) >= min_chunk_size]_vars

\* C3: every chunk is at most max_chunk_size long unless it is one single
\* sentence longer than that, and every such sentence of a packed section
\* is a chunk of its own.
C3_MaxSizeOrSingleSentence ==
  /\ \A i \in DOMAIN chunks :
       \/ Len(chunks[i].content) <= max_chunk_size
       \/ Len(ReSplitSentences(chunks[i].content)) = 1
  /\ pc = "created" =>
       \A k \in DOMAIN sections :
         LET section_text == JoinSpace(sections[k].content)
             sents == ReSplitSentences(section_text)
         IN  Len(section_text) > max_chunk_size =>
               \A n \in DOMAIN sents :
                 Len(sents[n]) > max_chunk_size =>
                   \E i \in DOMAIN chunks : chunks[i].content = sents[n]

\* C8: char_count is the length of content for every chunk: in the list
\* create_chunks is building, in all_chunks before, during and after the
\* post-processing pass, and in the saved store.
C8_CharCountIsLength ==
  /\ \A i \in DOMAIN chunks : chunks[i].char_count = Len(chunks[i].content)
  /\ \A i \in DOMAIN all_chunks : all_chunks[i].char_count = Len(all_chunks[i].content)
  /\ output_file # <<>> =>
       \A i \in DOMAIN output_file[1] :
         output_file[1][i].char_count = Len(output_file[1][i].content)

\* C8's case: a store saved after the pass renamed chunks, holding chunks
\* of the one-chunk path, flushed chunks and last fragments
C8_Witness ==
  /\ pc = "done"
  /\ fixed_count >= 2
  /\ \E i \in DOMAIN all_chunks : all_chunks[i].section = StrIntroduction
                                   /\ all_chunks[i].char_count <= max_chunk_size
  /\ \E i \in DOMAIN all_chunks : all_chunks[i].char_count > max_chunk_size
  /\ Len(output_file[1]) >= 4

\* The markers a paragraph starts with, case-insensitively
MarkersOf(para) ==
  {m \in DOMAIN section_markers : StartsWith(Lower(para), section_markers[m])}

\* The title the state machine gives a section that opens with para
TitleFor(para) ==
  IF MarkersOf(para) = {} THEN StrIntroduction
  ELSE Title(section_markers[Min(MarkersOf(para))])

ParasOf(secs) == Flatten([i \in DOMAIN secs |-> secs[i].content])

\* A section as the state machine builds it: it opens with a marker
\* paragraph and is titled by its first marker, or opens the chapter with
\* the title "Introduction"; no later paragraph of it starts with a marker.
WellFormedSection(sec, first) ==
  /\ \A k \in 2..Len(sec.content) : MarkersOf(sec.content[k]) = {}
  /\ sec.content # <<>> =>
       /\ sec.title = TitleFor(sec.content[1])
       /\ MarkersOf(sec.content[1]) = {} => first
  /\ sec.content = <<>> => sec.title = StrIntroduction /\ first

StrHerMarriage == <<"H","e","r"," ","M","a","r","r","i","a","g","e">>
StrBattleOf == <<"B","a","t","t","l","e"," ","O","f">>

C11_PostProcessIdempotent ==
  pc \in {"post", "done", "raised"} =>
    \A i \in 1..(postIdx - 1) : FixChunk(all_chunks[i]) = all_chunks[i]

\* C11's case: a finished pass that corrected a chunk
C11_Witness ==
  /\ pc = "done"
  /\ fixed_count > 0
  /\ \E i \in DOMAIN all_chunks : all_chunks[i].wife_name = StrUmmSalamahFull

\* C16: with a missing or malformed input file process_chapters stops at
\* the load: it builds no chunk and the output file is never written.
C16_FailedLoadWritesNothing ==
  input_file \in {"missing", "invalid"} =>
    /\ pc \in {"load", "aborted"}
    /\ all_chunks = <<>>
    /\ output_file = <<>>

\* C16's case: the build aborted on a malformed file
C16_Witness == pc = "aborted" /\ input_file = "invalid" /\ output_file = <<>>

\* C17: a section whose joined text is at most max_chunk_size long gives
\* exactly one more chunk, holding the whole joined text under the
\* section's title, and the loop moves on to the next section.
C17_SmallSectionOneChunk ==
  [][(/\ pc = "section"
      /\ secIdx <= Len(sections)
      /\ Len(JoinSpace(sections[secIdx].content)) <= max_chunk_size)
     => (/\ pc' = "section"
         /\ secIdx' = secIdx + 1
         /\ Len(chunks') = Len(chunks) + 1
         /\ SubSeq(chunks', 1, Len(chunks)) = chunks
         /\ chunks'[Len(chunks')].content = JoinSpace(sections[secIdx].content)
         /\ chunks'[Len(chunks')].section = sections[secIdx].title)]_vars

\* C17's case: a section of exactly max_chunk_size characters, emitted as
\* the one chunk of its chapter
C17_Witness ==
  /\ pc = "created"
  /\ Len(sections) = 1
  /\ Len(JoinSpace(sections[1].content)) = max_chunk_size
  /\ Len(chunks) = 1
  /\ chunks[1].content = JoinSpace(sections[1].content)

\* C19: the pass relabels every chunk of unresolved subject ('Unknown' or
\* 'Umm') whose lowercased content contains 'conclusion': both wife_name
\* and section become 'Conclusion'.
C19_ConclusionRelabelled ==
  [][(/\ pc = "post"
      /\ postIdx <= Len(all_chunks)
      /\ postIdx' = postIdx + 1
      /\ all_chunks[postIdx].wife_name \in {StrUmm, StrUnknown}
      /\ Contains(Lower(all_chunks[postIdx].content), KeyConclusion))
     => (/\ all_chunks'[postIdx].wife_name = StrConclusion
         /\ all_chunks'[postIdx].section = StrConclusion)]_vars

(***************************************************************************)
(* extract_wife_info step by step: one alias match per action.             *)
(***************************************************************************)
\* lines 37-47, and the first pattern's findall (line 58)
ExtractStart ==
  /\ e_pc = "start"
  /\ e_name' = ExtractName(e_text)
  /\ e_aliases' = <<>>
  /\ e_pat' = 1
  /\ e_matches' = FindAll(e_text, alias_patterns[1])
  /\ e_mIdx' = 1
  /\ e_pc' = "loop"
  /\ UNCHANGED <<e_text, e_result>>
  /\ UNCHANGED <<cvars, rvars, bvars>>

\* one iteration of `for match in matches` (lines 59-64)
ExtractMatch ==
  /\ e_pc = "loop"
  /\ e_mIdx <= Len(e_matches)
  /\ LET alias == Strip(e_matches[e_mIdx])
     IN  e_aliases' = IF AliasOk(alias) THEN Append(e_aliases, Title(alias))
                      ELSE e_aliases
  /\ e_mIdx' = e_mIdx + 1
  /\ UNCHANGED <<e_pc, e_text, e_name, e_pat, e_matches, e_result>>
  /\ UNCHANGED <<cvars, rvars, bvars>>

\* the next iteration of `for pattern in alias_patterns` (lines 57-58)
ExtractNextPattern ==
  /\ e_pc = "loop"
  /\ e_mIdx > Len(e_matches)
  /\ e_pat < Len(alias_patterns)
  /\ e_pat' = e_pat + 1
  /\ e_matches' = FindAll(e_text, alias_patterns[e_pat + 1])
  /\ e_mIdx' = 1
  /\ UNCHANGED <<e_pc, e_text, e_name, e_aliases, e_result>>
  /\ UNCHANGED <<cvars, rvars, bvars>>

\* lines 66-69
ExtractReturn ==
  /\ e_pc = "loop"
  /\ e_mIdx > Len(e_matches)
  /\ e_pat = Len(alias_patterns)
  /\ e_result' = [wife_name |-> e_name, aliases |-> Range(e_aliases)]
  /\ e_pc' = "done"
  /\ e_matches' = <<>>
  /\ e_mIdx' = 1
  /\ UNCHANGED <<e_text, e_name, e_pat, e_aliases>>
  /\ UNCHANGED <<cvars, rvars, bvars>>

NextExtract ==
  \/ ExtractStart
  \/ ExtractMatch
  \/ ExtractNextPattern
  \/ ExtractReturn

\* extract_wife_info not running
ExtractIdle ==
  /\ e_pc = "idle" /\ e_text = <<>> /\ e_name = <<>> /\ e_pat = 1
  /\ e_matches = <<>> /\ e_mIdx = 1 /\ e_aliases = <<>> /\ e_result = NoInfo

(***************************************************************************)
(* Inputs of extract_wife_info: texts that introduce an alias.             *)
(***************************************************************************)
\* The longest alias phrase generated (one more than the pattern's {3,20})
MaxAliasLen == 21

Rep(n, piece) == Flatten([i \in 1..n |-> piece])

\* p letters, then q times " b", then r times "  c": every mix of letters
\* and inner whitespace the group [a-z\s]{3,20} can capture
AliasBodies ==
  {Rep(b[1], <<"a">>) \o Rep(b[2], <<" ","b">>) \o Rep(b[3], <<" "," ","c">>) :
     b \in {x \in (0..MaxAliasLen) \X (0..10) \X (0..3) :
              x[1] + 2 * x[2] + 3 * x[3] <= MaxAliasLen}}

AliasIntros ==
  { <<"A","l","s","o"," ","k","n","o","w","n"," ","a","s"," ">>,
    <<"n","i","c","k","n","a","m","e","d",":"," ">>,
    <<"s","h","e"," ","w","a","s"," ","c","a","l","l","e","d"," "," ">>,
    <<"D","u","b","b","e","d",":">> }

AliasTails == { <<".">>, <<","," ","x">>, <<>>, <<"!">>, <<"\n">> }

AliasTexts ==
  {i \o b \o tl : i \in AliasIntros, b \in AliasBodies, tl \in AliasTails}
    \cup {<<"c","a","l","l","e","d"," ","a","b","c",","," ","d","u","b","b","e","d"," ","a","b","c","."," ","N","i","c","k","n","a","m","e","d"," ","a"," ","b",",","c","a","l","l","e","d"," ","a","b",".">>,
          <<"U","m","m"," ","a","l","-","M","u","m","i","n","i","n"," ","H","a","f","s","a","h"," ","b","i","n","t"," ","U","m","a","r",","," ","a","l","s","o"," ","k","n","o","w","n"," ","a","s",":"," ","a"," ","b","b"," ","c","c"," ","d","d",".">>}

InitExtract ==
  /\ e_pc = "start"
  /\ e_text \in AliasTexts
  /\ e_name = <<>> /\ e_pat = 1 /\ e_matches = <<>> /\ e_mIdx = 1
  /\ e_aliases = <<>> /\ e_result = NoInfo

(***************************************************************************)
(* retrieval.py: the index, cosine similarity and the top-3 selection.     *)
(***************************************************************************)
\* The executor threads that run perform_rag_retrieval
Queries == {"t1", "t2"}

Row(v, c) == [chunk_embeddings |-> v, content |-> c]

\* DataFrames the joblib file may hold: four chunks, two of them parallel
\* and so of equal cosine similarity to every query; two chunks; none
\* A DataFrame is its rows; None (the global before a load, or after a
\* failed one) and a missing file are the record that is not present
DataFrame(rows) == [present |-> TRUE, rows |-> rows]
None == [present |-> FALSE, rows |-> <<>>]
Missing == [present |-> FALSE, rows |-> <<>>]

FrameA == DataFrame(<<Row(<<1, 0>>, "a0"), Row(<<2, 0>>, "a1"), Row(<<0, 1>>, "a2"), Row(<<1, 1>>, "a3")>>)
FrameB == DataFrame(<<Row(<<0, 1>>, "b0"), Row(<<1, 0>>, "b1")>>)
FrameEmpty == DataFrame(<<>>)
Frames == {FrameA, FrameB, FrameEmpty}

\* The vectors the embedding service may answer with
QueryVectors == {<<1, 0>>, <<0, 1>>}

Dot(a, b) == a[1] * b[1] + a[2] * b[2]

\* cosine_similarity(X, [q]) compares as dot(a, q) / |a| (|q| is common to
\* all rows); a zero vector has similarity 0.  SimLess(a, b, q): the
\* similarity of a to q is less than that of b to q, in exact arithmetic.
SimLess(a, b, q) ==
  LET da == Dot(a, q)
      db == Dot(b, q)
      na == IF Dot(a, a) = 0 THEN 1 ELSE Dot(a, a)
      nb == IF Dot(b, b) = 0 THEN 1 ELSE Dot(b, b)
  IN  IF da < 0 /\ db >= 0 THEN TRUE
      ELSE IF da >= 0 /\ db < 0 THEN FALSE
      ELSE IF da >= 0 THEN da * da * nb < db * db * na
      ELSE da * da * nb > db * db * na

SimEq(a, b, q) == ~SimLess(a, b, q) /\ ~SimLess(b, a, q)

\* np.argsort(similarities): the row positions (0-based) in an order of
\* non-decreasing similarity.  The default kind is quicksort, which numpy
\* documents as not stable: rows of equal similarity come in any order.
ArgSorts(stored, q) ==
  LET n == Len(stored)
  IN  {p \in [1..n -> 0..(n - 1)] :
         /\ \A i, j \in 1..n : i # j => p[i] # p[j]
         /\ \A i \in 1..(n - 1) : ~SimLess(stored[p[i + 1] + 1], stored[p[i] + 1], q)}

Reverse(sq) == [i \in DOMAIN sq |-> sq[Len(sq) + 1 - i]]

\* order[:3][::-1], the three of lowest similarity
Top3Lowest(order) ==
  Reverse(SubSeq(order, 1, IF Len(order) > 3 THEN 3 ELSE Len(order)))

\* order[-3:][::-1]
Top3(order) ==
  Reverse(SubSeq(order, IF Len(order) > 3 THEN Len(order) - 2 ELSE 1, Len(order)))

\* Strings perform_rag_retrieval returns (named, not spelled out)
MsgNotLoaded == "The knowledge base is not loaded."
MsgEmbedFailed == "Failed to create embedding. Is Ollama running and the bge-m3 model available?"
MsgNotConfigured == "OLLAMA_URL is not configured."
MsgNoResponse == "Error: No 'response' field in Ollama output."
MsgGenFailed == "Sorry, I couldn't connect to the Ollama server or the request timed out."
MsgAnswer == "<generated answer>"

Returned(v) == [kind |-> "return", value |-> v]
Raised(e) == [kind |-> "raise", value |-> e]
NoResult == [kind |-> "none", value |-> ""]

\* What the HTTP services may do with a request: answer with the expected
\* field, answer without it, fail (connection error, HTTP error status) or
\* exceed the timeout (both requests.exceptions.RequestException)
Outcomes == {"ok", "nofield", "fail", "timeout"}

\* load_data (lines 17-27): DF = joblib.load(...), or None when the file is
\* not found.  DF is bound once, after joblib.load has returned.
LoadedValue(file) == IF file = Missing THEN None ELSE file

load_data ==
  /\ DF' = LoadedValue(joblib_file)
  /\ UNCHANGED <<joblib_file, generate_url, q_pc, q_sent, q_emb, questions_embedding,
                 stored_embeddings, top_indices, context_chunks, q_gen, q_result>>
  /\ UNCHANGED <<cvars, evars, bvars>>

\* The environment replaces or removes the joblib file
FileChange ==
  /\ \E f \in Frames \cup {Missing} :
       /\ f # joblib_file
       /\ joblib_file' = f
  /\ UNCHANGED <<DF, generate_url, q_pc, q_sent, q_emb, questions_embedding,
                 stored_embeddings, top_indices, context_chunks, q_gen, q_result>>
  /\ UNCHANGED <<cvars, evars, bvars>>

\* A thread ends its call with result r; its locals are gone
Finish(t, r) ==
  /\ q_pc' = [q_pc EXCEPT ![t] = "returned"]
  /\ q_result' = [q_result EXCEPT ![t] = r]
  /\ questions_embedding' = [questions_embedding EXCEPT ![t] = <<>>]
  /\ stored_embeddings' = [stored_embeddings EXCEPT ![t] = <<>>]
  /\ top_indices' = [top_indices EXCEPT ![t] = <<>>]
  /\ context_chunks' = [context_chunks EXCEPT ![t] = <<>>]

\* bot.py line 27: the executor starts perform_rag_retrieval(users_query)
QueryCall(t) ==
  /\ q_pc[t] = "idle"
  /\ q_pc' = [q_pc EXCEPT ![t] = "called"]
  /\ q_sent' = [q_sent EXCEPT ![t] = <<>>]
  /\ q_emb' = [q_emb EXCEPT ![t] = "none"]
  /\ q_gen' = [q_gen EXCEPT ![t] = "none"]
  /\ q_result' = [q_result EXCEPT ![t] = NoResult]
  /\ UNCHANGED <<DF, joblib_file, generate_url, questions_embedding,
                 stored_embeddings, top_indices, context_chunks>>
  /\ UNCHANGED <<cvars, evars, bvars>>

\* lines 74-75: the first read of DF
CheckLoaded(t) ==
  /\ q_pc[t] = "called"
  /\ IF DF = None
     THEN Finish(t, Returned(MsgNotLoaded))
     ELSE /\ q_pc' = [q_pc EXCEPT ![t] = "create_embedding"]
          /\ UNCHANGED <<q_result, questions_embedding, stored_embeddings,
                         top_indices, context_chunks>>
  /\ UNCHANGED <<DF, joblib_file, generate_url, q_sent, q_emb, q_gen>>
  /\ UNCHANGED <<cvars, evars, bvars>>

\* create_embedding lines 36-42: the second read of DF, then the POST
\* (input_list is [users_query], never empty)
EmbedRequest(t) ==
  /\ q_pc[t] = "create_embedding"
  /\ IF DF = None
     THEN /\ Finish(t, Returned(MsgEmbedFailed))
          /\ UNCHANGED q_sent
     ELSE /\ q_pc' = [q_pc EXCEPT ![t] = "embed_wait"]
          /\ q_sent' = [q_sent EXCEPT ![t] = Append(@, "embed")]
          /\ UNCHANGED <<q_result, questions_embedding, stored_embeddings,
                         top_indices, context_chunks>>
  /\ UNCHANGED <<DF, joblib_file, generate_url, q_emb, q_gen>>
  /\ UNCHANGED <<cvars, evars, bvars>>

\* np.vstack(df["chunk_embeddings"].values)
Embeddings(df) == [i \in DOMAIN df.rows |-> df.rows[i].chunk_embeddings]

\* The ranking of lines 85-89 on the DataFrame df read at line 85, for the
\* argsort result `order`
RankOn(t, df, q, order) ==
  /\ questions_embedding' = [questions_embedding EXCEPT ![t] = q]
  /\ stored_embeddings' = [stored_embeddings EXCEPT ![t] = Embeddings(df)]
  /\ top_indices' = [top_indices EXCEPT ![t] = Top3(order)]
  /\ q_pc' = [q_pc EXCEPT ![t] = "ranked"]
  /\ UNCHANGED <<q_result, context_chunks>>

\* An embedding step that drops the index when the request failed
EmbedResponseClearsIndex(t) ==
  /\ q_pc[t] = "embed_wait"
  /\ \E o \in Outcomes :
       /\ q_emb' = [q_emb EXCEPT ![t] = o]
       /\ IF o \in {"fail", "timeout"}
          THEN Finish(t, Returned(MsgEmbedFailed)) /\ DF' = None
          ELSE IF o = "nofield"
          THEN Finish(t, Raised("KeyError")) /\ DF' = DF
          ELSE IF DF = None
          THEN Finish(t, Raised("TypeError")) /\ DF' = DF
          ELSE IF DF.rows = <<>>
          THEN Finish(t, Raised("ValueError")) /\ DF' = DF
          ELSE /\ DF' = DF
               /\ \E q \in QueryVectors :
                    \E order \in ArgSorts(Embeddings(DF), q) :
                      RankOn(t, DF, q, order)
  /\ UNCHANGED <<joblib_file, generate_url, q_sent, q_gen>>
  /\ UNCHANGED <<cvars, evars, bvars>>

\* create_embedding lines 43-47 on the service's answer, back in
\* perform_rag_retrieval lines 79-89: the third read of DF, the
\* similarities and the top-3 selection
EmbedResponse(t) ==
  /\ q_pc[t] = "embed_wait"
  /\ \E o \in Outcomes :
       /\ q_emb' = [q_emb EXCEPT ![t] = o]
       /\ IF o \in {"fail", "timeout"}
          THEN Finish(t, Returned(MsgEmbedFailed))
          ELSE IF o = "nofield"
          THEN Finish(t, Raised("KeyError"))
          ELSE IF DF = None
          THEN Finish(t, Raised("TypeError"))
          ELSE IF DF.rows = <<>>
          THEN Finish(t, Raised("ValueError"))
          ELSE \E q \in QueryVectors :
                 \E order \in ArgSorts(Embeddings(DF), q) :
                   RankOn(t, DF, q, order)
  /\ UNCHANGED <<DF, joblib_file, generate_url, q_sent, q_gen>>
  /\ UNCHANGED <<cvars, evars, bvars>>

\* lines 95-96: the fourth read of DF, DF.iloc[top_indices]["content"];
\* then the prompt and inference's lines 51-61: the POST
Select(t) ==
  /\ q_pc[t] = "ranked"
  /\ IF DF = None
     THEN Finish(t, Raised("TypeError")) /\ UNCHANGED q_sent
     ELSE IF \E k \in DOMAIN top_indices[t] : top_indices[t][k] >= Len(DF.rows)
     THEN Finish(t, Raised("IndexError")) /\ UNCHANGED q_sent
     ELSE IF ~generate_url
     THEN Finish(t, Returned(MsgNotConfigured)) /\ UNCHANGED q_sent
     ELSE /\ context_chunks' =
               [context_chunks EXCEPT ![t] =
                  [k \in DOMAIN top_indices[t] |-> DF.rows[top_indices[t][k] + 1].content]]
          /\ q_sent' = [q_sent EXCEPT ![t] = Append(@, "generate")]
          /\ q_pc' = [q_pc EXCEPT ![t] = "generate_wait"]
          /\ UNCHANGED <<q_result, questions_embedding, stored_embeddings, top_indices>>
  /\ UNCHANGED <<DF, joblib_file, generate_url, q_emb, q_gen>>
  /\ UNCHANGED <<cvars, evars, bvars>>

\* A generation step that posts the request again after a timeout
GenerateResponseRetry(t) ==
  /\ q_pc[t] = "generate_wait"
  /\ \E o \in Outcomes :
       /\ q_gen' = [q_gen EXCEPT ![t] = o]
       /\ IF o = "timeout" /\ Len(q_sent[t]) < 3
          THEN /\ q_sent' = [q_sent EXCEPT ![t] = Append(@, "generate")]
               /\ UNCHANGED <<q_pc, q_result, questions_embedding, stored_embeddings,
                              top_indices, context_chunks>>
          ELSE /\ Finish(t, Returned(CASE o = "ok" -> MsgAnswer
                                       [] o = "nofield" -> MsgNoResponse
                                       [] OTHER -> MsgGenFailed))
               /\ UNCHANGED q_sent
  /\ UNCHANGED <<DF, joblib_file, generate_url, q_emb>>
  /\ UNCHANGED <<cvars, evars, bvars>>

\* inference lines 62-68 on the service's answer; line 128 returns it
GenerateResponse(t) ==
  /\ q_pc[t] = "generate_wait"
  /\ \E o \in Outcomes :
       /\ q_gen' = [q_gen EXCEPT ![t] = o]
       /\ Finish(t, Returned(CASE o = "ok" -> MsgAnswer
                               [] o = "nofield" -> MsgNoResponse
                               [] OTHER -> MsgGenFailed))
  /\ UNCHANGED <<DF, joblib_file, generate_url, q_sent, q_emb>>
  /\ UNCHANGED <<cvars, evars, bvars>>

\* The thread is free for the next command
QueryDone(t) ==
  /\ q_pc[t] = "returned"
  /\ q_pc' = [q_pc EXCEPT ![t] = "idle"]
  /\ UNCHANGED <<DF, joblib_file, generate_url, q_sent, q_emb, questions_embedding,
                 stored_embeddings, top_indices, context_chunks, q_gen, q_result>>
  /\ UNCHANGED <<cvars, evars, bvars>>

NextRag ==
  \/ load_data
  \/ FileChange
  \/ \E t \in Queries : QueryCall(t)
  \/ \E t \in Queries : CheckLoaded(t)
  \/ \E t \in Queries : EmbedRequest(t)
  \/ \E t \in Queries : EmbedResponse(t)
  \/ \E t \in Queries : Select(t)
  \/ \E t \in Queries : GenerateResponse(t)
  \/ \E t \in Queries : QueryDone(t)

\* After `import retrieval`: load_data has run once (line 30)
InitRag ==
  /\ joblib_file \in Frames \cup {Missing}
  /\ DF = LoadedValue(joblib_file)
  /\ generate_url \in BOOLEAN
  /\ q_pc = [t \in Queries |-> "idle"]
  /\ q_sent = [t \in Queries |-> <<>>]
  /\ q_emb = [t \in Queries |-> "none"]
  /\ q_gen = [t \in Queries |-> "none"]
  /\ questions_embedding = [t \in Queries |-> <<>>]
  /\ stored_embeddings = [t \in Queries |-> <<>>]
  /\ top_indices = [t \in Queries |-> <<>>]
  /\ context_chunks = [t \in Queries |-> <<>>]
  /\ q_result = [t \in Queries |-> NoResult]

\* retrieval.py not in use
RagIdle ==
  /\ joblib_file = Missing /\ DF = None /\ generate_url = TRUE
  /\ q_pc = [t \in Queries |-> "idle"]
  /\ q_sent = [t \in Queries |-> <<>>]
  /\ q_emb = [t \in Queries |-> "none"]
  /\ q_gen = [t \in Queries |-> "none"]
  /\ questions_embedding = [t \in Queries |-> <<>>]
  /\ stored_embeddings = [t \in Queries |-> <<>>]
  /\ top_indices = [t \in Queries |-> <<>>]
  /\ context_chunks = [t \in Queries |-> <<>>]
  /\ q_result = [t \in Queries |-> NoResult]

(***************************************************************************)
(* bot.py: the azwaj command.  The coroutine runs on the event loop from   *)
(* one await to the next; perform_rag_retrieval runs in an executor        *)
(* thread.                                                                 *)
(***************************************************************************)
MAX_CHARS == 2000

MsgInternalError == "An internal error occurred while trying to process your request."

\* The characters of the strings retrieval.py returns and of line 34
Chars(msg) ==
  CASE msg = MsgNotLoaded -> <<"T", "h", "e", " ", "k", "n", "o", "w", "l", "e", "d", "g", "e", " ", "b", "a", "s", "e", " ", "i", "s", " ", "n", "o", "t", " ", "l", "o", "a", "d", "e", "d", ".">>
    [] msg = MsgEmbedFailed -> <<"F", "a", "i", "l", "e", "d", " ", "t", "o", " ", "c", "r", "e", "a", "t", "e", " ", "e", "m", "b", "e", "d", "d", "i", "n", "g", ".", " ", "I", "s", " ", "O", "l", "l", "a", "m", "a", " ", "r", "u", "n", "n", "i", "n", "g", " ", "a", "n", "d", " ", "t", "h", "e", " ", "b", "g", "e", "-", "m", "3", " ", "m", "o", "d", "e", "l", " ", "a", "v", "a", "i", "l", "a", "b", "l", "e", "?">>
    [] msg = MsgNotConfigured -> <<"O", "L", "L", "A", "M", "A", "_", "U", "R", "L", " ", "i", "s", " ", "n", "o", "t", " ", "c", "o", "n", "f", "i", "g", "u", "r", "e", "d", ".">>
    [] msg = MsgNoResponse -> <<"E", "r", "r", "o", "r", ":", " ", "N", "o", " ", "'", "r", "e", "s", "p", "o", "n", "s", "e", "'", " ", "f", "i", "e", "l", "d", " ", "i", "n", " ", "O", "l", "l", "a", "m", "a", " ", "o", "u", "t", "p", "u", "t", ".">>
    [] msg = MsgGenFailed -> <<"S", "o", "r", "r", "y", ",", " ", "I", " ", "c", "o", "u", "l", "d", "n", "'", "t", " ", "c", "o", "n", "n", "e", "c", "t", " ", "t", "o", " ", "t", "h", "e", " ", "O", "l", "l", "a", "m", "a", " ", "s", "e", "r", "v", "e", "r", " ", "o", "r", " ", "t", "h", "e", " ", "r", "e", "q", "u", "e", "s", "t", " ", "t", "i", "m", "e", "d", " ", "o", "u", "t", ".">>
    [] msg = MsgInternalError -> <<"A", "n", " ", "i", "n", "t", "e", "r", "n", "a", "l", " ", "e", "r", "r", "o", "r", " ", "o", "c", "c", "u", "r", "r", "e", "d", " ", "w", "h", "i", "l", "e", " ", "t", "r", "y", "i", "n", "g", " ", "t", "o", " ", "p", "r", "o", "c", "e", "s", "s", " ", "y", "o", "u", "r", " ", "r", "e", "q", "u", "e", "s", "t", ".">>

\* str(n) of an f-string, n >= 0
Digits == <<"0", "1", "2", "3", "4", "5", "6", "7", "8", "9">>

RECURSIVE Str(_)
Str(n) == IF n < 10 THEN <<Digits[n + 1]>> ELSE Str(n \div 10) \o <<Digits[(n % 10) + 1]>>

\* f"**[Detailed Response - Part 1/{len(chunks)}]**\n" (line 50)
HeaderFirst(total) ==
  <<"*", "*", "[", "D", "e", "t", "a", "i", "l", "e", "d", " ", "R", "e", "s", "p", "o", "n", "s", "e", " ", "-", " ", "P", "a", "r", "t", " ", "1", "/">> \o Str(total) \o <<"]", "*", "*", "\n">>

\* f"**[Part {i+1}/{len(chunks)}]**\n" (line 52)
HeaderPart(i, total) ==
  <<"*", "*", "[", "P", "a", "r", "t", " ">> \o Str(i + 1) \o <<"/">> \o Str(total) \o <<"]", "*", "*", "\n">>

\* [response_text[i:i + MAX_CHARS] for i in range(0, len(response_text), MAX_CHARS)]
SplitChunks(response_text) ==
  LET len == Len(response_text)
      n   == (len + MAX_CHARS - 1) \div MAX_CHARS
  IN  [k \in 1..n |-> SubSeq(response_text, (k - 1) * MAX_CHARS + 1,
                             Min({k * MAX_CHARS, len}))]

\* A text of n characters whose characters differ from place to place
Text(n) == [i \in 1..n |-> Digits[(i % 7) + 1]]

\* The answers the generation service may give in a run of the bot
AnswerTexts == {<<"o", "k", ".">>, Text(MAX_CHARS + 1)}

\* What a command that sits on the event loop during its RAG call would do:
\* it starts only when no other invocation is waiting for its call
CommandOnLoop(c) ==
  /\ b_pc[c] = "none"
  /\ \A d \in Queries : b_pc[d] # "awaiting"
  /\ b_pc' = [b_pc EXCEPT ![c] = "awaiting"]
  /\ UNCHANGED <<final_response, b_chunks, b_i, b_sent>>
  /\ UNCHANGED <<cvars, evars, rvars>>

\* lines 20-31: the dispatcher starts azwaj_query, which hands
\* perform_rag_retrieval to the executor and awaits the future; the event
\* loop is free again
Command(c) ==
  /\ b_pc[c] = "none"
  /\ b_pc' = [b_pc EXCEPT ![c] = "awaiting"]
  /\ UNCHANGED <<final_response, b_chunks, b_i, b_sent>>
  /\ UNCHANGED <<cvars, evars, rvars>>

\* The executor thread begins the call handed over by Command
ExecutorStart(c) ==
  /\ b_pc[c] = "awaiting"
  /\ QueryCall(c)

\* A resumption without the except branch: an exception of the call ends
\* the coroutine
ResumeUncaught(c) ==
  /\ b_pc[c] = "awaiting"
  /\ q_pc[c] = "returned"
  /\ IF q_result[c].kind = "raise"
     THEN /\ b_pc' = [b_pc EXCEPT ![c] = "failed"]
          /\ UNCHANGED final_response
     ELSE /\ b_pc' = [b_pc EXCEPT ![c] = "respond"]
          /\ IF q_result[c].value = MsgAnswer
             THEN \E a \in AnswerTexts : final_response' = [final_response EXCEPT ![c] = a]
             ELSE final_response' = [final_response EXCEPT ![c] = Chars(q_result[c].value)]
  /\ UNCHANGED <<b_chunks, b_i, b_sent>>
  /\ UNCHANGED <<cvars, evars, rvars>>

\* lines 27-34: the future is done; the coroutine resumes with the value
\* returned, or with the fixed message when the call raised
Resume(c) ==
  /\ b_pc[c] = "awaiting"
  /\ q_pc[c] = "returned"
  /\ IF q_result[c].kind = "raise"
     THEN final_response' = [final_response EXCEPT ![c] = Chars(MsgInternalError)]
     ELSE IF q_result[c].value = MsgAnswer
     THEN \E a \in AnswerTexts : final_response' = [final_response EXCEPT ![c] = a]
     ELSE final_response' = [final_response EXCEPT ![c] = Chars(q_result[c].value)]
  /\ b_pc' = [b_pc EXCEPT ![c] = "respond"]
  /\ UNCHANGED <<b_chunks, b_i, b_sent>>
  /\ UNCHANGED <<cvars, evars, rvars>>

\* lines 37-43 and 53-55: a response within MAX_CHARS is sent as it is; a
\* longer one is cut into chunks
Respond(c) ==
  /\ b_pc[c] = "respond"
  /\ LET response_text == final_response[c]
     IN  IF Len(response_text) > MAX_CHARS
         THEN /\ b_chunks' = [b_chunks EXCEPT ![c] = SplitChunks(response_text)]
              /\ b_i' = [b_i EXCEPT ![c] = 0]
              /\ b_pc' = [b_pc EXCEPT ![c] = "sending"]
              /\ UNCHANGED b_sent
         ELSE /\ b_sent' = [b_sent EXCEPT ![c] = Append(@, response_text)]
              /\ b_pc' = [b_pc EXCEPT ![c] = "done"]
              /\ UNCHANGED <<b_chunks, b_i>>
  /\ UNCHANGED final_response
  /\ UNCHANGED <<cvars, evars, rvars>>

\* one iteration of `for i, chunk in enumerate(chunks)` (lines 46-52)
SendPart(c) ==
  /\ b_pc[c] = "sending"
  /\ b_i[c] < Len(b_chunks[c])
  /\ LET i     == b_i[c]
         chunk == b_chunks[c][i + 1]
         total == Len(b_chunks[c])
     IN  b_sent' = [b_sent EXCEPT ![c] =
                      Append(@, IF i = 0 THEN HeaderFirst(total) \o chunk
                                ELSE HeaderPart(i, total) \o chunk)]
  /\ b_i' = [b_i EXCEPT ![c] = @ + 1]
  /\ b_pc' = [b_pc EXCEPT ![c] = IF b_i[c] + 1 = Len(b_chunks[c]) THEN "done" ELSE "sending"]
  /\ UNCHANGED <<final_response, b_chunks>>
  /\ UNCHANGED <<cvars, evars, rvars>>

NextBot ==
  \/ \E c \in Queries : Command(c)
  \/ \E c \in Queries : ExecutorStart(c)
  \/ \E t \in Queries : CheckLoaded(t)
  \/ \E t \in Queries : EmbedRequest(t)
  \/ \E t \in Queries : EmbedResponse(t)
  \/ \E t \in Queries : Select(t)
  \/ \E t \in Queries : GenerateResponse(t)
  \/ \E c \in Queries : Resume(c)
  \/ \E c \in Queries : Respond(c)
  \/ \E c \in Queries : SendPart(c)

\* The message splitting of lines 37-55 on its own
NextSplit ==
  \/ \E c \in Queries : Respond(c)
  \/ \E c \in Queries : SendPart(c)

\* No command invoked yet
BotStart ==
  /\ b_pc = [c \in Queries |-> "none"]
  /\ final_response = [c \in Queries |-> <<>>]
  /\ b_chunks = [c \in Queries |-> <<>>]
  /\ b_i = [c \in Queries |-> 0]
  /\ b_sent = [c \in Queries |-> <<>>]

\* bot.py not running
BotIdle ==
  /\ b_pc = [c \in Queries |-> "idle"]
  /\ final_response = [c \in Queries |-> <<>>]
  /\ b_chunks = [c \in Queries |-> <<>>]
  /\ b_i = [c \in Queries |-> 0]
  /\ b_sent = [c \in Queries |-> <<>>]

\* The lengths of the responses the splitting is run on: around 0, around
\* MAX_CHARS and around its multiples
SplitSlack == 4

ResponseLengths ==
  UNION {{m * MAX_CHARS + d : d \in 0..SplitSlack} \cup
         {m * MAX_CHARS - d : d \in 0..(IF m = 0 THEN 0 ELSE SplitSlack)} : m \in 0..3}

ResponseTexts ==
  {Text(n) : n \in ResponseLengths}
    \cup {Chars(m) : m \in {MsgNotLoaded, MsgEmbedFailed, MsgNotConfigured,
                            MsgNoResponse, MsgGenFailed, MsgInternalError}}

\* One invocation resumed with its response, the other not invoked
SplitStart ==
  /\ b_pc \in {[c \in Queries |-> IF c = d THEN "respond" ELSE "none"] : d \in Queries}
  /\ \E t \in ResponseTexts :
       final_response = [c \in Queries |-> IF b_pc[c] = "respond" THEN t ELSE <<>>]
  /\ b_chunks = [c \in Queries |-> <<>>]
  /\ b_i = [c \in Queries |-> 0]
  /\ b_sent = [c \in Queries |-> <<>>]

(***************************************************************************)
(* The specifications.                                                     *)
(***************************************************************************)
\* The chunking build: process_chapters on a chapter list
InitChunk == ChunkStart /\ ExtractIdle /\ RagIdle /\ BotIdle
SpecChunk == InitChunk /\ [][NextChunk]_vars

\* extract_wife_info on an alias text
InitAlias == ChunkIdle /\ InitExtract /\ RagIdle /\ BotIdle
SpecAlias == InitAlias /\ [][NextExtract]_vars

\* Queries in executor threads, with reloads of the index
InitQuery == ChunkIdle /\ ExtractIdle /\ InitRag /\ BotIdle
SpecRag == InitQuery /\ [][NextRag]_vars

\* The bot: azwaj commands whose RAG calls run in executor threads, on the
\* index loaded at import
InitBot == ChunkIdle /\ ExtractIdle /\ InitRag /\ BotStart
SpecBot == InitBot /\ [][NextBot]_vars

\* The message splitting of azwaj_query on a response text
InitSplit == ChunkIdle /\ ExtractIdle /\ RagIdle /\ SplitStart
SpecSplit == InitSplit /\ [][NextSplit]_vars

\* The bot with its scheduling: the executor runs a call that was handed to
\* it, a thread that can take a step takes it, a posted request ends (with
\* an answer, an error or the timeout of 30 s or 170 s), and the event loop
\* resumes a coroutine whose await is done.  Nothing obliges a user to
\* invoke the command.
BotFairness ==
  \A c \in Queries :
    /\ WF_vars(ExecutorStart(c))
    /\ WF_vars(CheckLoaded(c))
    /\ WF_vars(EmbedRequest(c))
    /\ WF_vars(EmbedResponse(c))
    /\ WF_vars(Select(c))
    /\ WF_vars(GenerateResponse(c))
    /\ WF_vars(Resume(c))
    /\ WF_vars(Respond(c))
    /\ WF_vars(SendPart(c))

SpecBotFair == InitBot /\ [][NextBot]_vars /\ BotFairness

(***************************************************************************)
(* Properties of the retrieval step.                                       *)
(***************************************************************************)
\* C4: of two chunks of identical similarity, the one with the lower row
\* index is ranked first, and is the one selected when only one of them is
\* in the top 3.
C4_TieLowerIdFirst ==
  \A t \in Queries :
    q_pc[t] = "ranked" =>
      LET st  == stored_embeddings[t]
          q   == questions_embedding[t]
          top == top_indices[t]
      IN  /\ \A i, j \in DOMAIN top :
               (i < j /\ SimEq(st[top[i] + 1], st[top[j] + 1], q)) => top[i] < top[j]
          /\ \A i \in DOMAIN top :
               \A u \in 0..(Len(st) - 1) :
                 (u \notin Range(top) /\ SimEq(st[top[i] + 1], st[u + 1], q)) => top[i] < u

\* C5: every call works on one index: the contents it selected are the
\* rows, at the selected positions, of the DataFrame whose vectors it
\* ranked; and no call that passed the not-loaded check of line 74 later
\* finds DF to be None or too short for its positions.
C5_OneSnapshotPerCall ==
  \A t \in Queries :
    /\ q_pc[t] = "generate_wait" =>
         \E f \in Frames :
           /\ Embeddings(f) = stored_embeddings[t]
           /\ context_chunks[t] =
                [k \in DOMAIN top_indices[t] |-> f.rows[top_indices[t][k] + 1].content]
    /\ q_result[t] \notin {Raised("TypeError"), Raised("IndexError")}
    /\ q_result[t] = Returned(MsgEmbedFailed) => q_sent[t] # <<>>

BadOutcomes == {"nofield", "fail", "timeout"}

\* C6: a call whose embedding or generation request failed, timed out or
\* was answered without the expected field does not end by returning a
\* value, as it does with a generated answer: it ends with an error.
C6_FailureIsDistinguishable ==
  \A t \in Queries :
    (q_pc[t] = "returned" /\ (q_emb[t] \in BadOutcomes \/ q_gen[t] \in BadOutcomes))
      => q_result[t].kind = "raise"

\* C7: a call that finds no index loaded at its check, or zero chunks when
\* it is about to rank, ends there with an error; it does not return a
\* value and does not go on to ranking or generation.
C7_EmptyIndexFails ==
  [][\A t \in Queries :
       /\ (q_pc[t] = "called" /\ DF = None /\ q_pc'[t] # q_pc[t])
            => (q_pc'[t] = "returned" /\ q_result'[t].kind = "raise")
       /\ (q_pc[t] = "embed_wait" /\ q_pc'[t] # q_pc[t] /\ q_emb'[t] = "ok"
             /\ DF # None /\ DF.rows = <<>>)
            => (q_pc'[t] = "returned" /\ q_result'[t].kind = "raise")]_vars

C13_OneRequestEachNoRetry ==
  \A t \in Queries :
    /\ q_sent[t] \in {<<>>, <<"embed">>, <<"embed", "generate">>}
    /\ Len(q_sent[t]) = 2 => q_emb[t] = "ok"
    /\ q_emb[t] \in BadOutcomes =>
         (q_pc[t] \in {"returned", "idle"} /\ q_sent[t] = <<"embed">>)
    /\ q_gen[t] \in BadOutcomes =>
         (q_pc[t] \in {"returned", "idle"} /\ q_sent[t] = <<"embed", "generate">>)

\* C13's case: a call ended by a generation timeout, after both requests
C13_Witness ==
  \E t \in Queries :
    /\ q_pc[t] = "returned"
    /\ q_gen[t] = "timeout"
    /\ q_sent[t] = <<"embed", "generate">>
    /\ q_result[t] = Returned(MsgGenFailed)

\* C14: no step of a query changes the global DF: DF changes only in a
\* step of load_data, in which no call moves and no call's result changes.
C14_QueriesLeaveIndexAlone ==
  [][DF' # DF =>
       (/\ DF' = LoadedValue(joblib_file)
        /\ q_pc' = q_pc
        /\ q_result' = q_result
        /\ q_sent' = q_sent)]_vars

\* C14's case: one call ended on a failed embedding request, and another
\* call, started on the same index, has ranked its rows
C14_Witness ==
  \E t, u \in Queries :
    /\ q_pc[t] = "returned"
    /\ q_emb[t] \in {"fail", "timeout"}
    /\ q_pc[u] = "ranked"
    /\ DF # None
    /\ stored_embeddings[u] = Embeddings(DF)

\* C15: a reload never takes a loaded index away: when load_data changes a
\* loaded DF, the new value is the complete DataFrame of the file; a reload
\* that finds no file leaves the old index in place.
C15_ReloadKeepsOldIndex ==
  [][(DF # None /\ DF' # DF) => (DF' # None /\ DF' = joblib_file)]_vars

(***************************************************************************)
(* Properties of the alias filter.                                         *)
(***************************************************************************)
\* The stripped candidates of a text: match.strip() for every match of
\* every alias pattern
Candidates(text) ==
  UNION {{Strip(m) : m \in Range(FindAll(text, alias_patterns[p]))} :
           p \in DOMAIN alias_patterns}

Letters(c) == Cardinality({i \in DOMAIN c : c[i] \in LowerSet \cup UpperSet})

\* C10 as stated: a candidate is accepted exactly when its length is within
\* 3..20 and its letters are at least 70% of its length.
C10_AcceptsAtLeast70 ==
  e_pc = "done" =>
    \A c \in Candidates(e_text) :
      (Title(c) \in e_result.aliases)
        <=> (3 <= Len(c) /\ Len(c) <= 20 /\ 10 * Letters(c) >= 7 * Len(c))

\* C10 amended: a candidate is accepted exactly when its length is within
\* 3..20 and its letters are more than 70% of its length; one with exactly
\* 70% letters is rejected.  Every alias returned is an accepted candidate.
C10_AcceptsAbove70 ==
  e_pc = "done" =>
    /\ \A c \in Candidates(e_text) :
         (Title(c) \in e_result.aliases)
           <=> (3 <= Len(c) /\ Len(c) <= 20 /\ 10 * Letters(c) > 7 * Len(c))
    /\ \A a \in e_result.aliases : \E c \in Candidates(e_text) : a = Title(c)

\* C10's case: a candidate of 10 characters, 7 of them letters, filtered
C10_Witness ==
  /\ e_pc = "done"
  /\ \E c \in Candidates(e_text) :
       /\ Len(c) = 10
       /\ Letters(c) = 7
       /\ Title(c) \notin e_result.aliases

(***************************************************************************)
(* Properties of the bot.                                                  *)
(***************************************************************************)
\* C18: while one invocation waits for a RAG call that is blocked in an
\* external request, the dispatcher can start another azwaj command, and
\* the executor can begin the call of a command that was started.
C18_SlowQueryDoesNotBlock ==
  \A c, d \in Queries :
    /\ (/\ c # d
        /\ b_pc[c] = "awaiting"
        /\ q_pc[c] \in {"embed_wait", "generate_wait"}
        /\ b_pc[d] = "none")
         => ENABLED Command(d)
    /\ (/\ c # d
        /\ b_pc[c] = "awaiting"
        /\ q_pc[c] \in {"embed_wait", "generate_wait"}
        /\ b_pc[d] = "awaiting"
        /\ q_pc[d] = "idle")
         => ENABLED ExecutorStart(d)

\* C18's case: two calls in flight at once, both blocked in a request
C18_Witness ==
  \E c, d \in Queries :
    /\ c # d
    /\ b_pc[c] = "awaiting" /\ q_pc[c] = "embed_wait"
    /\ b_pc[d] = "awaiting" /\ q_pc[d] = "generate_wait"

\* C20: every message sent is at most MAX_CHARS long, header included; a
\* response longer than MAX_CHARS is sent as ceil(len / MAX_CHARS) messages,
\* message k being the header of part k of the total followed by the k-th
\* slice of the response, so that the bodies in order are the response.
C20_MessagesWithinCeiling ==
  \A c \in Queries :
    b_pc[c] = "done" =>
      LET text == final_response[c]
          len  == Len(text)
          n    == (len + MAX_CHARS - 1) \div MAX_CHARS
      IN  /\ \A k \in DOMAIN b_sent[c] : Len(b_sent[c][k]) <= MAX_CHARS
          /\ len > MAX_CHARS =>
               /\ Len(b_sent[c]) = n
               /\ \A k \in 1..n :
                    b_sent[c][k] =
                      (IF k = 1 THEN HeaderFirst(n) ELSE HeaderPart(k - 1, n))
                        \o SubSeq(text, (k - 1) * MAX_CHARS + 1, Min({k * MAX_CHARS, len}))

\* C21: every invocation of the azwaj command leads to at least one
\* message handed to ctx.send, whether the call returned an answer, returned
\* one of its error strings or raised.
C21_EveryCommandReplies ==
  \A c \in Queries : (b_pc[c] = "awaiting") ~> (Len(b_sent[c]) >= 1)

\* C21's case: a call that raised, answered with the fixed message
C21_Witness ==
  \E c \in Queries :
    /\ b_pc[c] = "done"
    /\ q_result[c].kind = "raise"
    /\ b_sent[c] = <<Chars(MsgInternalError)>>

====
